---- MODULE Spec2Model ----
(***************************************************************************)
(* html2md: reduction of an HTML document to a flat list of Markdown       *)
(* blocks (parse) and the rendering of that list (toMarkdown).             *)
(*                                                                         *)
(* A JavaScript string is a sequence of one-character strings.  A DOM      *)
(* document is the sequence of its nodes in document (pre-order) order;     *)
(* node 1 is doc.body and every other node names its parent.               *)
(***************************************************************************)
EXTENDS Integers, Sequences, FiniteSets, TLC

VARIABLES
    input,         \* the argument of html2md(): [kind, window, tree]
    pc,            \* position in html2md(): start, extract, compact, inlines,
                   \* cleanup, parsed, done, error
    doc,           \* the Document parse() works on (<<>> before it exists)
    work,          \* the pending calls of extract(): the recursion, made explicit
    currentBlock,  \* extractBlocks' currentBlock: an index into blocks, 0 is null
    blocks,        \* the blocks array of parse()
    md,            \* the string toMarkdown() returned (<<>> before)
    units,         \* one block's inline sequence, when its content is computed alone
    given,         \* the sequence cleanInlines() was last called with
    activeStyles,  \* toMarkdown's activeStyles for the block being rendered
    blockContent,  \* toMarkdown's content for the block being rendered
    unitIndex      \* how many units of the block forEach has been through

\* the locals of toMarkdown's map callback
rvars == <<activeStyles, blockContent, unitIndex>>

vars == <<input, pc, doc, work, currentBlock, blocks, md, units, given, rvars>>

----------------------------------------------------------------------------
(* Bounds of the model *)

\* nodes of an input document besides its body
MaxNodes == 3

\* nodes a single block owns, with what is below them, when its content is
\* computed alone
MaxInlineNodes == 4

----------------------------------------------------------------------------
(* JavaScript values *)

\* null (getAttribute of a missing attribute); no string equals it
Null == <<"null-value">>

\* String(v) as the + operator applies it to one operand
ToStr(v) == IF v = Null THEN <<"n", "u", "l", "l">> ELSE v

\* the characters \s matches, among those the model uses
Whitespace == {" ", "\n"}

Last(s) == s[Len(s)]

Front(s) == SubSeq(s, 1, Len(s) - 1)

\* _.contains(list, x) for a list held as a sequence
Contains(list, x) == \E k \in 1..Len(list) : list[k] = x

----------------------------------------------------------------------------
(* The tables of the module *)

block_elements ==
    <<"article", "aside", "blockquote", "body", "button", "canvas", "caption",
      "col", "colgroup", "dd", "div", "dl", "dt", "embed", "fieldset",
      "figcaption", "figure", "footer", "form", "h1", "h2", "h3", "h4", "h5",
      "h6", "header", "hgroup", "hr", "li", "map", "object", "ol", "output",
      "p", "pre", "progress", "section", "table", "tbody", "textarea", "tfoot",
      "th", "thead", "tr", "ul", "video">>

empty_tags == <<"hr", "br", "img", "video", "audio">>

markdown_block_tags ==
    <<"blockquote", "h1", "h2", "h3", "h4", "h5", "h6", "hr", "li", "pre", "p">>

markdown_empty_blocks == <<"hr">>

\* selector -> style, in the object's key order; a selector is its tag list
markdown_inline_tags ==
    << [sel |-> {"b", "strong"}, style |-> "bold"],
       [sel |-> {"i", "em"},     style |-> "italic"],
       [sel |-> {"code"},        style |-> "code"] >>

\* the character U+0060, which a string of this language cannot hold
Backtick == "backtick"

\* markdown_syntax[key], or <<>> where the object has no such key
\* (the callers write markdown_syntax[k] || "")
markdown_syntax(key) ==
    CASE key = "hr"         -> <<"-", " ", "-", " ", "-">>
      [] key = "br"         -> <<" ", " ", "\n">>
      [] key = "h1"         -> <<"#", " ">>
      [] key = "h2"         -> <<"#", "#", " ">>
      [] key = "h3"         -> <<"#", "#", "#", " ">>
      [] key = "h4"         -> <<"#", "#", "#", "#", " ">>
      [] key = "h5"         -> <<"#", "#", "#", "#", "#", " ">>
      [] key = "h6"         -> <<"#", "#", "#", "#", "#", "#", " ">>
      [] key = "ul"         -> <<"*", " ">>
      [] key = "ol"         -> <<"1", ".", " ">>
      [] key = "blockquote" -> <<">", " ">>
      [] key = "pre"        -> <<" ", " ">>
      [] key = "p"          -> <<>>
      [] key = "bold"       -> <<"*", "*">>
      [] key = "italic"     -> <<"_">>
      [] key = "code"       -> <<Backtick>>
      [] OTHER              -> <<>>

----------------------------------------------------------------------------
(* Input documents *)

\* element tags and text contents the input documents draw from
BlockTagsUsed == {"div", "h1", "p", "blockquote", "li", "hr"}
InlineTagsUsed == {"b", "br", "img", "audio", "script"}
TextsUsed == { <<"a">>, <<"b">>, <<" ">> }

\* what the script elements of the inputs hold: a character no other text has
ScriptTexts == { <<"s">> }

\* values of an img element's src attribute; Null is the missing attribute
SrcsUsed == { Null, <<"x">> }

\* what the nodes of a single block draw from
BlockInlineTags == {"b", "i", "br", "img"}
BlockTexts == { <<"a">>, <<" ">>, <<"\n">>, <<"a", " ">>, <<"\n", " ", "a">> }
BlockSrcs == { <<"x">> }

TextNode(p, t) == [tag |-> "#text", parent |-> p, text |-> t, src |-> Null]
Element(p, g, s) == [tag |-> g, parent |-> p, text |-> <<>>, src |-> s]

BodyOnly == << Element(0, "body", Null) >>

nodeType(n) == IF n.tag = "#text" THEN 3 ELSE 1

\* elements the HTML syntax gives no children
VoidTags == {"hr", "br", "img"}

RECURSIVE Ancestors(_, _)
\* i and the nodes above it
Ancestors(d, i) == IF i = 0 THEN {} ELSE {i} \cup Ancestors(d, d[i].parent)

\* the tags that mark inline content in the inputs
InlineTags == InlineTagsUsed \cup BlockInlineTags

\* what may be appended under parent p: the documented assumption is that
\* inline elements do not contain block elements; a script holds text only
KindsUnder(d, p, tags, texts, srcs) ==
    LET inl   == \E a \in Ancestors(d, p) : d[a].tag \in InlineTags
        elems == IF d[p].tag = "script" THEN {}
                 ELSE IF inl THEN (tags \cap InlineTags) \ {"script"}
                 ELSE tags
    IN  { Element(p, g, Null) : g \in elems \ {"img"} }
        \cup (IF "img" \in elems THEN { Element(p, "img", c) : c \in srcs } ELSE {})
        \cup { TextNode(p, t) : t \in IF d[p].tag = "script" THEN ScriptTexts ELSE texts }

\* the documents one more node in document order extends d to
Extensions(d, tags, texts, srcs) ==
    UNION { { Append(d, n) : n \in KindsUnder(d, p, tags, texts, srcs) } :
            p \in { a \in Ancestors(d, Len(d)) : d[a].tag \notin VoidTags \cup {"#text"} } }

\* the parser builds no element beyond these; doc.body always exists
InputFull(d) == Len(d) >= MaxNodes + 1

----------------------------------------------------------------------------
(* DOM access: bti-dom-utils and the DOM interfaces parse() calls *)

\* el.childNodes, as node indices in order
childNodes(d, i) == SelectSeq([k \in 1..Len(d) |-> k], LAMBDA k : d[k].parent = i)

\* i and the nodes below it, in document order
Subtree(d, i) == SelectSeq([k \in 1..Len(d) |-> k], LAMBDA k : i \in Ancestors(d, k))

RECURSIVE ConcatText(_, _)
ConcatText(d, ks) ==
    IF ks = <<>> THEN <<>> ELSE d[Head(ks)].text \o ConcatText(d, Tail(ks))

\* utils.getTextContent(n): the text of n and of all below it
getTextContent(d, i) == ConcatText(d, Subtree(d, i))

\* String.prototype.trim() leaves nothing
IsBlank(str) == \A k \in 1..Len(str) : str[k] \in Whitespace

\* utils.matchesSelector(n, sel) for a selector that is a list of tags
matchesSelector(d, i, tags) == nodeType(d[i]) = 1 /\ d[i].tag \in tags

\* n.querySelector(sel): some element below n matches
querySelector(d, i, tags) ==
    \E k \in 1..Len(d) : k # i /\ i \in Ancestors(d, k) /\ matchesSelector(d, k, tags)

\* el.getAttribute("src"): null when the element has no such attribute
getAttribute(d, i) == d[i].src

\* closest(el, selector) finds an element: el or one above it matches
closest(d, i, tags) == \E a \in Ancestors(d, i) : matchesSelector(d, a, tags)

\* Entities.normalizeXML(text, "html") rewrites entity references; the
\* characters of the model spell none, so the text is returned as it is
normalizeXML(str) == str

----------------------------------------------------------------------------
(* html2md.toDOM *)

\* An input string is held as the tree the host parser builds from it, script
\* elements included, each with its end tag.  SCRIPT_REGEX matches every
\* <script ...> ... </script> region, so the document toDOM() returns is that
\* tree without the script elements and what they hold.  The entity rewriting
\* of Entities.normalizeXML(html, "xhtml") changes no character of the model.
toDOM(html) ==
    LET keep   == { k \in 1..Len(html) :
                      \A a \in Ancestors(html, k) : html[a].tag # "script" }
        renum(k) == Cardinality({ j \in keep : j <= k })
        kept   == SelectSeq([k \in 1..Len(html) |-> k], LAMBDA k : k \in keep)
    IN  [ n \in 1..Len(kept) |->
            [ html[kept[n]] EXCEPT !.parent = IF @ = 0 THEN 0 ELSE renum(@) ] ]

----------------------------------------------------------------------------
(* STEP 1: extractBlocks and compactBlocks *)

\* the type of the block a block element opens
BlockType(tag) == IF Contains(markdown_block_tags, tag) THEN tag ELSE "p"

\* extract(el) goes to addInline(el)
IsInlineNode(d, i) ==
    nodeType(d[i]) # 1 \/ ~Contains(block_elements, d[i].tag)

\* addInline(el) that puts a new block first in the array
addInline_NewBlockFirst(bs, cur, i) ==
    IF cur # 0
    THEN [bs EXCEPT ![cur].nodes = Append(@, i)]
    ELSE <<[type |-> "p", nodes |-> <<i>>]>> \o bs

\* addInline(el) that never reuses the open block
addInline_AlwaysNewBlock(bs, cur, i) ==
    Append(bs, [type |-> "p", nodes |-> <<i>>])

\* addInline(el)
addInline(bs, cur, i) ==
    IF cur # 0
    THEN [bs EXCEPT ![cur].nodes = Append(@, i)]
    ELSE Append(bs, [type |-> "p", nodes |-> <<i>>])

\* "remove the current block if it's empty"
DropEmptyCurrent(bs, cur) ==
    IF /\ cur # 0
       /\ Len(bs[cur].nodes) = 0
       /\ ~Contains(markdown_empty_blocks, bs[cur].type)
       /\ Len(bs) = cur
    THEN Front(bs)
    ELSE bs

\* the test of compactBlocks on one node of a block
MeaningfulNode(d, i) ==
    \/ ~IsBlank(getTextContent(d, i))
    \/ /\ nodeType(d[i]) = 1
       /\ \/ matchesSelector(d, i, { empty_tags[k] : k \in 1..Len(empty_tags) })
          \/ querySelector(d, i, { empty_tags[k] : k \in 1..Len(empty_tags) })

\* what compactBlocks leaves of one block that it keeps
CompactedBlock(b) ==
    IF Contains(markdown_empty_blocks, b.type) THEN [type |-> b.type] ELSE b

KeptByCompact(d, b) ==
    \/ Contains(markdown_empty_blocks, b.type)
    \/ \E k \in 1..Len(b.nodes) : MeaningfulNode(d, b.nodes[k])

compactBlocks(d, bs) ==
    LET kept == SelectSeq(bs, LAMBDA b : KeptByCompact(d, b))
    IN  [ k \in 1..Len(kept) |-> CompactedBlock(kept[k]) ]

----------------------------------------------------------------------------
(* STEP 2: extractInlines and cleanInlines *)

\* _.filter(markdown_inline_tags, ...): the styles whose selector an element
\* at or above the text node matches, in the table's order
StylesOf(d, i) ==
    LET hit == SelectSeq(markdown_inline_tags, LAMBDA e : closest(d, i, e.sel))
    IN  [ k \in 1..Len(hit) |-> hit[k].style ]

\* case 3 of extractInlines without the merge into the last unit
addText_NeverMerge(d, i, inlines) ==
    Append(inlines, [type |-> "text",
                     content |-> normalizeXML(getTextContent(d, i)),
                     styles |-> StylesOf(d, i)])

\* case 3 of extractInlines: a text node
addText(d, i, inlines) ==
    LET content == normalizeXML(getTextContent(d, i))
        styles  == StylesOf(d, i)
    IN  IF /\ inlines # <<>>
           /\ "content" \in DOMAIN Last(inlines)
           /\ Last(inlines).styles = styles
        THEN [inlines EXCEPT ![Len(inlines)].content = @ \o content]
        ELSE Append(inlines, [type |-> "text", content |-> content, styles |-> styles])

RECURSIVE extractInlines(_, _, _)
RECURSIVE extractInlinesOfAll(_, _, _)

\* extractInlines(el, inlines)
extractInlines(d, i, inlines) ==
    IF nodeType(d[i]) = 3 THEN addText(d, i, inlines)
    ELSE IF d[i].tag = "br" THEN Append(inlines, [type |-> "br"])
    ELSE IF d[i].tag = "img"
         THEN Append(inlines, [type |-> "img", src |-> getAttribute(d, i)])
    ELSE extractInlinesOfAll(d, childNodes(d, i), inlines)

\* extractInlines over a list of nodes in order, extending one sequence
extractInlinesOfAll(d, ks, inlines) ==
    IF ks = <<>> THEN inlines
    ELSE extractInlinesOfAll(d, Tail(ks), extractInlines(d, Head(ks), inlines))

RECURSIVE TrimStart(_)
\* content.replace(/^\s+/, "")
TrimStart(str) ==
    IF str # <<>> /\ Head(str) \in Whitespace THEN TrimStart(Tail(str)) ELSE str

\* the replace that rewrites nothing
Collapse_Nothing(str) == str

RECURSIVE Collapse(_)
\* content.replace(/\s+/g, " ")
Collapse(str) ==
    IF str = <<>> THEN <<>>
    ELSE IF Head(str) \in Whitespace THEN <<" ">> \o Collapse(TrimStart(str))
    ELSE <<Head(str)>> \o Collapse(Tail(str))

RECURSIVE TrimEnd(_)
\* content.replace(/\s+$/, "")
TrimEnd(str) ==
    IF str # <<>> /\ Last(str) \in Whitespace THEN TrimEnd(Front(str)) ELSE str

\* the unit the reduce callback reads as prev: inlines[i-1] of the array being
\* reduced, whose units the callback has rewritten in place
PrevInline(arr, m, i) == arr[i - 1]

\* "remove leading space if previous inline has trailing space"
StripAfterPrev(arr, m, i, content) ==
    IF /\ content # <<>>
       /\ content[1] = " "
       /\ i > 1
       /\ LET prev == PrevInline(arr, m, i)
          IN  \/ prev.type = "br"
              \/ /\ prev.type = "text"
                 /\ prev.content # <<>>
                 /\ Last(prev.content) = " "
    THEN Tail(content)
    ELSE content

RECURSIVE CleanReduce(_, _, _)
\* the reduce of cleanInlines from unit i on: arr is the array, m the result
CleanReduce(arr, m, i) ==
    IF i > Len(arr) THEN m
    ELSE IF arr[i].type # "text" THEN CleanReduce(arr, Append(m, arr[i]), i + 1)
    ELSE LET content == StripAfterPrev(arr, m, i, Collapse(arr[i].content))
             inline  == [arr[i] EXCEPT !.content = content]
         IN  CleanReduce([arr EXCEPT ![i] = inline],
                         IF content # <<>> THEN Append(m, inline) ELSE m,
                         i + 1)

RECURSIVE TrimLeading(_)
\* "trim leading whitespace"
TrimLeading(inlines) ==
    IF inlines # <<>> /\ inlines[1].type = "text"
    THEN LET content == TrimStart(inlines[1].content)
         IN  IF content # <<>> THEN [inlines EXCEPT ![1].content = content]
             ELSE TrimLeading(Tail(inlines))
    ELSE inlines

RECURSIVE TrimTrailing(_)
\* "trim trailing whitespace"
TrimTrailing(inlines) ==
    IF inlines # <<>> /\ Last(inlines).type = "text"
    THEN LET content == TrimEnd(Last(inlines).content)
         IN  IF content # <<>> THEN [inlines EXCEPT ![Len(inlines)].content = content]
             ELSE TrimTrailing(Front(inlines))
    ELSE inlines

cleanInlines(inlines) == TrimTrailing(TrimLeading(CleanReduce(inlines, <<>>, 1)))

\* the forEach of STEP 2 on one block
WithContent(d, b) ==
    IF Contains(markdown_empty_blocks, b.type) THEN b
    ELSE [type |-> b.type, nodes |-> b.nodes,
          content |-> cleanInlines(extractInlinesOfAll(d, b.nodes, <<>>))]

----------------------------------------------------------------------------
(* STEP 3: clean up *)

\* STEP 3 without its filter
KeptByCleanUp_KeepAll(b) == TRUE

\* "cannot be empty unless otherwise specified"
KeptByCleanUp(b) ==
    Contains(markdown_empty_blocks, b.type) \/ Len(b.content) # 0

\* delete b.nodes
WithoutNodes(b) ==
    IF "content" \in DOMAIN b THEN [type |-> b.type, content |-> b.content]
    ELSE [type |-> b.type]

cleanUp(bs) ==
    LET kept == SelectSeq(bs, KeptByCleanUp)
    IN  [ k \in 1..Len(kept) |-> WithoutNodes(kept[k]) ]

----------------------------------------------------------------------------
(* html2md.toMarkdown *)

\* what a function returns when it falls off its end; no string equals it
Undefined == <<"undefined-value">>

RECURSIVE Markers(_)
\* the markdown_syntax entries of a list of styles, concatenated
Markers(styles) ==
    IF styles = <<>> THEN <<>>
    ELSE markdown_syntax(Head(styles)) \o Markers(Tail(styles))

Reverse(s) == [ k \in 1..Len(s) |-> s[Len(s) + 1 - k] ]

\* updateStyles(styles) that closes no style
updateStyles_NeverClose(st, styles) ==
    LET open == SelectSeq(styles, LAMBDA x : ~Contains(st.activeStyles, x))
    IN  [ activeStyles |-> st.activeStyles \o open,
          content |-> st.content \o Markers(open) ]

\* updateStyles(styles) on the block's activeStyles and content
updateStyles(st, styles) ==
    LET close   == SelectSeq(st.activeStyles, LAMBDA x : ~Contains(styles, x))
        active  == SelectSeq(st.activeStyles, LAMBDA x : ~Contains(close, x))
        open    == SelectSeq(styles, LAMBDA x : ~Contains(active, x))
    IN  [ activeStyles |-> active \o open,
          content |-> st.content \o Markers(Reverse(close)) \o Markers(open) ]

\* the forEach callback of toMarkdown on one inline unit
renderInline(st, inline) ==
    CASE inline.type = "text" ->
           LET u == updateStyles(st, inline.styles)
           IN  [u EXCEPT !.content = @ \o inline.content]
      [] inline.type = "br" ->
           [st EXCEPT !.content = @ \o markdown_syntax("br")]
      [] inline.type = "img" ->
           [st EXCEPT !.content = @ \o <<"!", "[", "]", "(">> \o ToStr(inline.src) \o <<")">>]
      [] OTHER -> st

RECURSIVE renderInlines(_, _)
\* block.content.forEach(...) from state st
renderInlines(st, inlines) ==
    IF inlines = <<>> THEN st
    ELSE renderInlines(renderInline(st, Head(inlines)), Tail(inlines))

\* the types the switch of toMarkdown returns a string for
RenderedTypes ==
    {"blockquote", "pre", "p", "hr", "h1", "h2", "h3", "h4", "h5", "h6"}

\* the map callback of toMarkdown on one block
renderBlock(block) ==
    LET st0     == [activeStyles |-> <<>>, content |-> <<>>]
        content == IF "content" \in DOMAIN block
                   THEN updateStyles(renderInlines(st0, block.content), <<>>).content
                   ELSE <<>>
    IN  IF block.type \in RenderedTypes
        THEN markdown_syntax(block.type) \o content
        ELSE Undefined

RECURSIVE Join(_)
\* Array.prototype.join("\n\n"): undefined joins as the empty string
Join(items) ==
    IF items = <<>> THEN <<>>
    ELSE LET first == IF Head(items) = Undefined THEN <<>> ELSE Head(items)
         IN  IF Len(items) = 1 THEN first
             ELSE first \o <<"\n", "\n">> \o Join(Tail(items))

toMarkdown(tree) == Join([ k \in 1..Len(tree) |-> renderBlock(tree[k]) ])

----------------------------------------------------------------------------
(* html2md(doc, options) *)

\* The caller holds an HTML string or a Document; until html2md() is called
\* the input may still grow, one node at a time in document order.
Init ==
    /\ input \in { [kind |-> "string",   window |-> TRUE,  tree |-> BodyOnly],
                    [kind |-> "document", window |-> TRUE,  tree |-> BodyOnly],
                    [kind |-> "document", window |-> FALSE, tree |-> BodyOnly] }
    /\ pc = "start"
    /\ doc = <<>>
    /\ work = <<>>
    /\ currentBlock = 0
    /\ blocks = <<>>
    /\ md = <<>>
    /\ units = <<>>
    /\ given = <<>>
    /\ activeStyles = <<>>
    /\ blockContent = <<>>
    /\ unitIndex = 0

\* the caller's input gets one more node
GrowInput ==
    /\ pc = "start"
    /\ ~InputFull(input.tree)
    /\ \E t \in Extensions(input.tree, BlockTagsUsed \cup InlineTagsUsed, TextsUsed, SrcsUsed) : input' = [input EXCEPT !.tree = t]
    /\ UNCHANGED <<pc, doc, work, currentBlock, blocks, md, units, given, rvars>>

\* parse() of a string: doc = html2md.toDOM(doc); the host gives a window
ParseString ==
    /\ pc = "start"
    /\ input.kind = "string"
    /\ doc' = toDOM(input.tree)
    /\ work' = <<1>>
    /\ pc' = "extract"
    /\ UNCHANGED <<input, currentBlock, blocks, md, units, given, rvars>>

\* parse() of a Document that comes with a window
ParseDocument ==
    /\ pc = "start"
    /\ input.kind = "document"
    /\ input.window
    /\ doc' = input.tree
    /\ work' = <<1>>
    /\ pc' = "extract"
    /\ UNCHANGED <<input, currentBlock, blocks, md, units, given, rvars>>

\* throw new Error("Missing window reference.")
MissingWindow ==
    /\ pc = "start"
    /\ input.kind = "document"
    /\ ~input.window
    /\ pc' = "error"
    /\ UNCHANGED <<input, doc, work, currentBlock, blocks, md, units, given, rvars>>

\* extract(el) for a node that is no block element: addInline(el)
ExtractInline ==
    /\ pc = "extract"
    /\ work # <<>>
    /\ Head(work) # 0
    /\ IsInlineNode(doc, Head(work))
    /\ blocks' = addInline(blocks, currentBlock, Head(work))
    /\ work' = Tail(work)
    /\ UNCHANGED <<input, pc, doc, currentBlock, md, units, given, rvars>>

\* extract(el) for a block element, up to the calls on its children
ExtractBlock ==
    /\ pc = "extract"
    /\ work # <<>>
    /\ Head(work) # 0
    /\ ~IsInlineNode(doc, Head(work))
    /\ LET el == Head(work)
           bs == DropEmptyCurrent(blocks, currentBlock)
       IN  /\ blocks' = Append(bs, [type |-> BlockType(doc[el].tag), nodes |-> <<>>])
           /\ currentBlock' = Len(bs) + 1
           /\ work' = childNodes(doc, el) \o <<0>> \o Tail(work)
    /\ UNCHANGED <<input, pc, doc, md, units, given, rvars>>

\* extract(el) that leaves the block of el open when it returns
ExtractReturn_KeepCurrent ==
    /\ pc = "extract" /\ work # <<>> /\ Head(work) = 0
    /\ work' = Tail(work)
    /\ UNCHANGED <<input, pc, doc, currentBlock, blocks, md, units, given, rvars>>

\* the end of extract(el) for a block element: "reset current block"
ExtractReturn ==
    /\ pc = "extract"
    /\ work # <<>>
    /\ Head(work) = 0
    /\ currentBlock' = 0
    /\ work' = Tail(work)
    /\ UNCHANGED <<input, pc, doc, blocks, md, units, given, rvars>>

\* extractBlocks has returned: compactBlocks
Compact ==
    /\ pc = "extract"
    /\ work = <<>>
    /\ blocks' = compactBlocks(doc, blocks)
    /\ pc' = "inlines"
    /\ UNCHANGED <<input, doc, work, currentBlock, md, units, given, rvars>>

\* STEP 2: every block gets its content
ConvertInlines ==
    /\ pc = "inlines"
    /\ blocks' = [ k \in 1..Len(blocks) |-> WithContent(doc, blocks[k]) ]
    /\ pc' = "cleanup"
    /\ UNCHANGED <<input, doc, work, currentBlock, md, units, given, rvars>>

\* STEP 3, and parse() returns blocks
CleanUp ==
    /\ pc = "cleanup"
    /\ blocks' = cleanUp(blocks)
    /\ pc' = "parsed"
    /\ UNCHANGED <<input, doc, work, currentBlock, md, units, given, rvars>>

\* html2md.toMarkdown(tree) on what parse() returned
ToMarkdown ==
    /\ pc = "parsed"
    /\ md' = toMarkdown(blocks)
    /\ pc' = "done"
    /\ UNCHANGED <<input, doc, work, currentBlock, blocks, units, given, rvars>>

Next ==
    \/ GrowInput
    \/ ParseString
    \/ ParseDocument
    \/ MissingWindow
    \/ ExtractInline
    \/ ExtractBlock
    \/ ExtractReturn
    \/ Compact
    \/ ConvertInlines
    \/ CleanUp
    \/ ToMarkdown

Spec == Init /\ [][Next]_vars

----------------------------------------------------------------------------
(* The content of one block, computed alone: the callback of STEP 2 *)

\* doc.body stands for the block element; its children are the block's nodes
InitBlock ==
    /\ input = [kind |-> "document", window |-> TRUE, tree |-> BodyOnly]
    /\ pc = "nodes"
    /\ doc = BodyOnly
    /\ work = <<>>
    /\ currentBlock = 0
    /\ blocks = <<>>
    /\ md = <<>>
    /\ units = <<>>
    /\ given = <<>>
    /\ activeStyles = <<>>
    /\ blockContent = <<>>
    /\ unitIndex = 0

\* the block owns one more node
GrowBlock ==
    /\ pc = "nodes"
    /\ Len(doc) < MaxInlineNodes + 1
    /\ \E t \in Extensions(doc, BlockInlineTags, BlockTexts, BlockSrcs) : doc' = t
    /\ UNCHANGED <<input, pc, work, currentBlock, blocks, md, units, given, rvars>>

\* b.nodes.reduce(function(m, n) { return extractInlines(n, m); }, [])
ExtractInlines ==
    /\ pc = "nodes"
    /\ units' = extractInlinesOfAll(doc, childNodes(doc, 1), <<>>)
    /\ pc' = "extracted"
    /\ UNCHANGED <<input, doc, work, currentBlock, blocks, md, given, rvars>>

\* b.content = cleanInlines(...)
CleanInlines ==
    /\ pc = "extracted"
    /\ given' = units
    /\ units' = cleanInlines(units)
    /\ pc' = "cleaned"
    /\ UNCHANGED <<input, doc, work, currentBlock, blocks, md, rvars>>

\* the Inline Cleaner run again on content it has cleaned
CleanAgain ==
    /\ pc = "cleaned"
    /\ given' = units
    /\ units' = cleanInlines(units)
    /\ pc' = "recleaned"
    /\ UNCHANGED <<input, doc, work, currentBlock, blocks, md, rvars>>

NextBlock ==
    \/ GrowBlock
    \/ ExtractInlines
    \/ CleanInlines
    \/ CleanAgain

SpecBlock == InitBlock /\ [][NextBlock]_vars

----------------------------------------------------------------------------
(* One block rendered unit by unit: the map callback of toMarkdown on the
   block { type: "p", content: units } that parse() made of the nodes *)

\* var activeStyles = [], content = "";
RenderBlock ==
    /\ pc = "cleaned"
    /\ activeStyles' = <<>>
    /\ blockContent' = <<>>
    /\ unitIndex' = 0
    /\ pc' = "rendering"
    /\ UNCHANGED <<input, doc, work, currentBlock, blocks, md, units, given>>

\* one call of the forEach callback
RenderInline ==
    /\ pc = "rendering"
    /\ unitIndex < Len(units)
    /\ LET st == renderInline([activeStyles |-> activeStyles, content |-> blockContent],
                              units[unitIndex + 1])
       IN  /\ activeStyles' = st.activeStyles
           /\ blockContent' = st.content
    /\ unitIndex' = unitIndex + 1
    /\ UNCHANGED <<input, pc, doc, work, currentBlock, blocks, md, units, given>>

\* forEach is through: updateStyles()
RenderEnd ==
    /\ pc = "rendering"
    /\ unitIndex = Len(units)
    /\ LET st == updateStyles([activeStyles |-> activeStyles, content |-> blockContent], <<>>)
       IN  /\ activeStyles' = st.activeStyles
           /\ blockContent' = st.content
    /\ pc' = "rendered"
    /\ UNCHANGED <<input, doc, work, currentBlock, blocks, md, units, given, unitIndex>>

NextRender ==
    \/ GrowBlock
    \/ ExtractInlines
    \/ CleanInlines
    \/ RenderBlock
    \/ RenderInline
    \/ RenderEnd

SpecRender == InitBlock /\ [][NextRender]_vars

----------------------------------------------------------------------------
(* Properties of what parse() returns *)

\* parse() has returned: blocks is its result
Returned == pc \in {"parsed", "done"}

BlockTypes == { markdown_block_tags[k] : k \in 1..Len(markdown_block_tags) }

InlineTypes == {"text", "br", "img"}

\* C1: every returned block has one of the Markdown block types; a block that
\* is no hr has a content of at least one inline unit, all of them text, br or
\* img and none a block; an hr block has no content field; no returned block
\* has a nodes field.
C1_ReturnedBlocksWellFormed ==
    Returned =>
        \A k \in 1..Len(blocks) :
            LET b == blocks[k]
            IN  /\ b.type \in BlockTypes
                /\ "nodes" \notin DOMAIN b
                /\ b.type = "hr" => "content" \notin DOMAIN b
                /\ b.type # "hr" =>
                      /\ "content" \in DOMAIN b
                      /\ Len(b.content) >= 1
                      /\ \A j \in 1..Len(b.content) :
                            /\ b.content[j].type \in InlineTypes
                            /\ b.content[j].type \notin BlockTypes
                            /\ "nodes" \notin DOMAIN b.content[j]

\* an hr block and a block with content are returned, and the audio element
\* of the input left a block that STEP 3 removed
C1_Witness ==
    /\ pc = "parsed"
    /\ \E k \in 1..Len(blocks) : blocks[k].type = "hr"
    /\ \E k \in 1..Len(blocks) : blocks[k].type # "hr" /\ Len(blocks[k].content) >= 1
    /\ \E k \in 1..Len(doc) : doc[k].tag = "audio"

\* the input has no block-level markup: below the body there are only text
\* nodes and elements outside block_elements
NoBlockMarkup(d) == \A k \in 2..Len(d) : IsInlineNode(d, k)

\* the cleaned inline sequence of all the nodes of the body, in document order
BodyContent(d) == cleanInlines(extractInlinesOfAll(d, childNodes(d, 1), <<>>))

\* C2, as the claim states it: input with no block-level markup gives exactly
\* one block, a p that wraps all the inline content.
C2_ExactlyOneParagraph ==
    (pc = "parsed" /\ NoBlockMarkup(doc)) =>
        /\ Len(blocks) = 1
        /\ blocks[1].type = "p"
        /\ blocks[1].content = BodyContent(doc)

\* C2, amended: input with no block-level markup gives at most one block; none
\* when the cleaned inline content of the body is empty, and otherwise one p
\* whose content is that cleaned content, in document order.
C2_AtMostOneParagraph ==
    (pc = "parsed" /\ NoBlockMarkup(doc)) =>
        /\ Len(blocks) <= 1
        /\ Len(blocks) = 0 <=> BodyContent(doc) = <<>>
        /\ Len(blocks) = 1 =>
              /\ blocks[1].type = "p"
              /\ blocks[1].content = BodyContent(doc)

\* three inline nodes of the body, an element among them, are wrapped by the
\* one returned paragraph
C2_Witness ==
    /\ pc = "parsed"
    /\ NoBlockMarkup(doc)
    /\ Len(doc) = 4
    /\ \E k \in 2..Len(doc) : doc[k].tag = "b"
    /\ Len(blocks) = 1
    /\ Len(blocks[1].content) >= 2

\* the prefix the rendering of a block of each type starts with; the list
\* marker of an li is the ul entry of markdown_syntax
StaticPrefix(type) == IF type = "li" THEN markdown_syntax("ul") ELSE markdown_syntax(type)

\* the rendered inline content of a block, all styles closed
RenderedContent(b) ==
    updateStyles(renderInlines([activeStyles |-> <<>>, content |-> <<>>], b.content),
                 <<>>).content

\* C3: toMarkdown() renders every block with content as the static prefix of
\* its type followed by its rendered inline content, an hr as "- - -", and
\* joins the renderings with two newlines; no block's content is lost.
C3_EveryBlockRendered ==
    pc = "done" =>
        md = Join([ k \in 1..Len(blocks) |->
                      IF blocks[k].type = "hr" THEN <<"-", " ", "-", " ", "-">>
                      ELSE StaticPrefix(blocks[k].type) \o RenderedContent(blocks[k]) ])

\* the text units of the returned blocks, in order
RECURSIVE TextOfUnits(_)
TextOfUnits(us) ==
    IF us = <<>> THEN <<>>
    ELSE (IF Head(us).type = "text" THEN Head(us).content ELSE <<>>)
         \o TextOfUnits(Tail(us))

RECURSIVE TextOfBlocks(_)
TextOfBlocks(bs) ==
    IF bs = <<>> THEN <<>>
    ELSE (IF "content" \in DOMAIN Head(bs) THEN TextOfUnits(Head(bs).content) ELSE <<>>)
         \o TextOfBlocks(Tail(bs))

Occurs(c, str) == \E k \in 1..Len(str) : str[k] = c

\* C7: whether the input is an HTML string or a Document, the text inside a
\* script element is in no returned block's content and not in the Markdown.
C7_NoScriptText ==
    /\ Returned => ~Occurs("s", TextOfBlocks(blocks))
    /\ pc = "done" => ~Occurs("s", md)

\* C8: an img element with no src attribute yields an img unit whose src is
\* the empty string, and so renders as "![]()".
C8_MissingSrcIsEmptyString ==
    /\ Returned =>
          \A k \in 1..Len(blocks) :
              "content" \in DOMAIN blocks[k] =>
                  \A j \in 1..Len(blocks[k].content) :
                      blocks[k].content[j].type = "img" =>
                          blocks[k].content[j].src \in { <<>>, <<"x">> }
    /\ (pc = "done" /\ Len(doc) = 2 /\ doc[2].tag = "img" /\ doc[2].src = Null) =>
          md = <<"!", "[", "]", "(", ")">>

----------------------------------------------------------------------------
(* Properties of the block sequence *)

StripWhitespace(str) == SelectSeq(str, LAMBDA c : c \notin Whitespace)

RECURSIVE IsSubsequence(_, _)
\* s is t with some of its elements left out
IsSubsequence(s, t) ==
    IF s = <<>> THEN TRUE
    ELSE IF t = <<>> THEN FALSE
    ELSE IF Head(s) = Head(t) THEN IsSubsequence(Tail(s), Tail(t))
    ELSE IsSubsequence(s, Tail(t))

RECURSIVE TextNodesOf(_, _)
\* the text nodes at or below the nodes ks, in the order of ks
TextNodesOf(d, ks) ==
    IF ks = <<>> THEN <<>>
    ELSE SelectSeq(Subtree(d, Head(ks)), LAMBDA k : nodeType(d[k]) = 3)
         \o TextNodesOf(d, Tail(ks))

RECURSIVE OwnedTextNodes(_, _)
\* the text nodes the blocks own, block after block
OwnedTextNodes(d, bs) ==
    IF bs = <<>> THEN <<>>
    ELSE (IF "nodes" \in DOMAIN Head(bs) THEN TextNodesOf(d, Head(bs).nodes) ELSE <<>>)
         \o OwnedTextNodes(d, Tail(bs))

StrictlyIncreasing(s) == \A k \in 1..(Len(s) - 1) : s[k] < s[k + 1]

\* C9: the block sequence is flat and in document order.  While the blocks
\* own nodes, the text nodes they own, read block after block, are in document
\* order and none is owned twice; the text of the returned blocks, read block
\* after block, is text of the document in document order, no character of it
\* used twice; and a returned block holds inline units only.
C9_FlatInDocumentOrder ==
    /\ pc \in {"extract", "inlines", "cleanup"} =>
          StrictlyIncreasing(OwnedTextNodes(doc, blocks))
    /\ Returned =>
          /\ IsSubsequence(StripWhitespace(TextOfBlocks(blocks)),
                           StripWhitespace(getTextContent(doc, 1)))
          /\ \A k \in 1..Len(blocks) :
                "content" \in DOMAIN blocks[k] =>
                    \A j \in 1..Len(blocks[k].content) :
                        blocks[k].content[j].type \in InlineTypes

\* <h1>a</h1>b in the body, a generic container: the h1 nested in it yields
\* its own block, and the block of a comes before the block of b
C9_Witness ==
    /\ pc = "parsed"
    /\ Len(doc) = 4
    /\ doc[2].tag = "h1"
    /\ doc[3] = TextNode(2, <<"a">>)
    /\ doc[4] = TextNode(1, <<"b">>)
    /\ Len(blocks) = 2
    /\ blocks[1] = [type |-> "h1",
                    content |-> <<[type |-> "text", content |-> <<"a">>, styles |-> <<>>]>>]
    /\ blocks[2] = [type |-> "p",
                    content |-> <<[type |-> "text", content |-> <<"b">>, styles |-> <<>>]>>]

\* the tags the STEP 1 comment names
TypingTags == {"blockquote", "pre", "li", "hr", "h1", "h2", "h3", "h4", "h5", "h6"}

RECURSIVE ClosestTypingTag(_, _)
\* the tag of the closest element at or above node i that is one of the
\* typing tags, and "p" when there is none
ClosestTypingTag(d, i) ==
    IF i = 0 THEN "p"
    ELSE IF d[i].tag \in TypingTags THEN d[i].tag
    ELSE ClosestTypingTag(d, d[i].parent)

\* C10: the type of each returned block is the tag of the closest ancestor of
\* its content among blockquote, pre, li, hr, h1..h6, and p when there is none.
C10_TypeFromClosestAncestor ==
    pc = "cleanup" =>
        \A k \in 1..Len(blocks) :
            ("nodes" \in DOMAIN blocks[k] /\ KeptByCleanUp(blocks[k])) =>
                \A j \in 1..Len(blocks[k].nodes) :
                    blocks[k].type = ClosestTypingTag(doc, blocks[k].nodes[j])

\* node i is in the nodes of a block of bs
Owned(bs, i) ==
    \E k \in 1..Len(bs) : "nodes" \in DOMAIN bs[k] /\ Contains(bs[k].nodes, i)

\* the index in bs of the block whose nodes hold node i
OwnerOf(bs, i) ==
    CHOOSE k \in 1..Len(bs) : "nodes" \in DOMAIN bs[k] /\ Contains(bs[k].nodes, i)

\* j and k are children of one element, j before k
Siblings(d, j, k) ==
    j < k /\ d[j].parent # 0 /\ d[j].parent = d[k].parent

\* a block-level element stands between the siblings j and k
BlockElementBetween(d, j, k) ==
    \E m \in (j + 1)..(k - 1) : d[m].parent = d[j].parent /\ ~IsInlineNode(d, m)

\* C11: an inline node joins the open block, and with no block open an
\* implicit p block that is then the open one: inline sibling nodes with no
\* block-level element between them are in the nodes of the same block.
C11_InlineSiblingsShareBlock ==
    pc = "extract" =>
        \A j, k \in 2..Len(doc) :
            ( /\ Siblings(doc, j, k)
              /\ IsInlineNode(doc, j) /\ IsInlineNode(doc, k)
              /\ ~BlockElementBetween(doc, j, k)
              /\ Owned(blocks, j) /\ Owned(blocks, k) ) =>
                OwnerOf(blocks, j) = OwnerOf(blocks, k)

\* C12, as the claim states it: an inline node that follows a nested
\* block-level element inside an enclosing block-level element is in the
\* enclosing element's block, the one that holds the inline nodes standing
\* before the first nested block-level element.
C12_CurrentBlockRestored ==
    pc = "extract" =>
        \A j, k \in 2..Len(doc) :
            ( /\ Siblings(doc, j, k)
              /\ IsInlineNode(doc, j) /\ IsInlineNode(doc, k)
              /\ \A m \in 2..(j - 1) : doc[m].parent = doc[j].parent => IsInlineNode(doc, m)
              /\ BlockElementBetween(doc, j, k)
              /\ Owned(blocks, j) /\ Owned(blocks, k) ) =>
                OwnerOf(blocks, j) = OwnerOf(blocks, k)

\* C12, amended: when extract() returns from a block-level element no block is
\* open, so a node that follows a nested block-level element in the same
\* parent is reached with no open block, and an inline one is put in a block
\* pushed after that element's blocks, which holds no node standing before
\* the nested element.
C12_CurrentBlockReset ==
    pc = "extract" =>
        /\ (work # <<>> /\ Head(work) # 0
                /\ \E m \in 2..(Head(work) - 1) :
                      Siblings(doc, m, Head(work)) /\ ~IsInlineNode(doc, m)) =>
              currentBlock = 0
        /\ \A m, k \in 2..Len(doc) :
              ( /\ Siblings(doc, m, k)
                /\ ~IsInlineNode(doc, m) /\ IsInlineNode(doc, k)
                /\ Owned(blocks, k) ) =>
                  \A n \in 1..Len(blocks[OwnerOf(blocks, k)].nodes) :
                      blocks[OwnerOf(blocks, k)].nodes[n] > m

\* the block extractor has walked a body holding a text, a block-level element
\* and a text after it: the first text is in the body's block, the last one in
\* a block pushed after the element's block
C12_Witness ==
    /\ pc = "extract" /\ work = <<>>
    /\ Len(doc) = 4
    /\ IsInlineNode(doc, 2) /\ ~IsInlineNode(doc, 3) /\ IsInlineNode(doc, 4)
    /\ doc[4].parent = 1
    /\ Len(blocks) = 3
    /\ blocks[1].nodes = <<2>>
    /\ blocks[3].nodes = <<4>>

----------------------------------------------------------------------------
(* Properties of one block's content, under SpecBlock *)

\* two text units next to each other never have the same style set
NoAdjacentSameStyle(us) ==
    \A k \in 1..(Len(us) - 1) :
        (us[k].type = "text" /\ us[k + 1].type = "text") =>
            { us[k].styles[j] : j \in 1..Len(us[k].styles) }
                # { us[k + 1].styles[j] : j \in 1..Len(us[k + 1].styles) }

\* C4: the Inline Cleaner is idempotent on what the Inline Extractor produces:
\* cleaning cleaned content returns it unchanged.
C4_CleanerIdempotent ==
    pc = "recleaned" => units = given

NonText(us) == SelectSeq(us, LAMBDA u : u.type # "text")

\* C6: every text unit of a cleaned sequence has non-empty content with no
\* run of two or more whitespace characters; a first unit that is text does
\* not start with whitespace and a last unit that is text does not end with
\* it; the br and img units are those given, unchanged and in order.
C6_CleanedUnits ==
    pc \in {"cleaned", "recleaned"} =>
        /\ \A k \in 1..Len(units) :
              units[k].type = "text" =>
                  /\ units[k].content # <<>>
                  /\ \A j \in 1..(Len(units[k].content) - 1) :
                        ~(units[k].content[j] \in Whitespace
                          /\ units[k].content[j + 1] \in Whitespace)
        /\ (units # <<>> /\ units[1].type = "text") =>
              units[1].content[1] \notin Whitespace
        /\ (units # <<>> /\ Last(units).type = "text") =>
              Last(Last(units).content) \notin Whitespace
        /\ NonText(units) = NonText(given)

\* a sequence with a run of whitespace and leading whitespace in text units,
\* a br and an img was cleaned: a unit was dropped, the run collapsed
C6_Witness ==
    /\ pc = "cleaned"
    /\ \E k \in 1..Len(given) :
          /\ given[k].type = "text"
          /\ \E j \in 1..(Len(given[k].content) - 1) :
                given[k].content[j] \in Whitespace /\ given[k].content[j + 1] \in Whitespace
    /\ given[1].type = "text" /\ given[1].content[1] \in Whitespace
    /\ \E k \in 1..Len(given) : given[k].type = "br"
    /\ \E k \in 1..Len(given) : given[k].type = "img"
    /\ Len(units) < Len(given)
    /\ \E k \in 1..Len(units) : units[k].type = "text"

----------------------------------------------------------------------------
(* Properties of one block's rendering, under SpecRender *)

\* the styles of the style table
AllStyles == { markdown_inline_tags[k].style : k \in 1..Len(markdown_inline_tags) }

\* the members of a style list
StyleSet(styles) == { styles[k] : k \in 1..Len(styles) }

\* how many times the marker of style s stands in str; no text or src of the
\* documents holds a character of a marker
MarkerCount(s, str) ==
    Cardinality({ j \in 1..Len(str) : str[j] = markdown_syntax(s)[1] })
        \div Len(markdown_syntax(s))

\* the last text unit among the first n units, 0 when there is none
LastTextUnit(us, n) ==
    IF \E k \in 1..n : us[k].type = "text"
    THEN CHOOSE k \in 1..n :
            us[k].type = "text" /\ \A j \in (k + 1)..n : us[j].type # "text"
    ELSE 0

\* str ends with suffix
EndsWith(str, suffix) ==
    /\ Len(suffix) <= Len(str)
    /\ SubSeq(str, Len(str) - Len(suffix) + 1, Len(str)) = suffix

\* the open styles and the markers emitted so far agree with the units the
\* forEach has been through
OpenStylesMatchUnits ==
    /\ (pc = "rendering" /\ unitIndex >= 1) =>
          LET u == units[unitIndex]
              t == LastTextUnit(units, unitIndex)
          IN  /\ u.type = "text" =>
                    /\ StyleSet(activeStyles) = StyleSet(u.styles)
                    /\ EndsWith(blockContent, u.content)
              /\ StyleSet(activeStyles) =
                    IF t = 0 THEN {} ELSE StyleSet(units[t].styles)
    /\ pc = "rendering" =>
          /\ Cardinality(StyleSet(activeStyles)) = Len(activeStyles)
          /\ \A s \in AllStyles :
                s \in StyleSet(activeStyles) <=> MarkerCount(s, blockContent) % 2 = 1
    /\ pc = "rendered" =>
          /\ activeStyles = <<>>
          /\ \A s \in AllStyles : MarkerCount(s, blockContent) % 2 = 0

\* what one step of the forEach emits: for a text unit the markers of the open
\* styles it does not have, last opened first, then the markers of its styles
\* that were not open, then its content; for a br or an img no marker, the
\* open styles staying as they are
UnitEmitted ==
    (pc = "rendering" /\ unitIndex' = unitIndex + 1) =>
        LET u      == units[unitIndex']
            closed == SelectSeq(activeStyles, LAMBDA x : x \notin StyleSet(u.styles))
            opened == SelectSeq(u.styles, LAMBDA x : x \notin StyleSet(activeStyles))
        IN  IF u.type = "text"
            THEN blockContent' = blockContent \o Markers(Reverse(closed))
                                    \o Markers(opened) \o u.content
            ELSE /\ activeStyles' = activeStyles
                 /\ \A s \in AllStyles :
                       MarkerCount(s, blockContent') = MarkerCount(s, blockContent)

\* C13: while one block is rendered, after a text unit the open styles are
\* that unit's style set, the styles no longer required having been closed in
\* reverse of their opening order and the new ones opened before the unit's
\* content; br and img units leave the open styles unchanged; after the last
\* unit no style is open; so a style's marker was emitted an odd number of
\* times exactly while the style is open, and an even number of times in the
\* rendered block.
C13_OpenStylesFollowUnits ==
    [] OpenStylesMatchUnits /\ [][UnitEmitted]_vars

\* a block was rendered in which a styled text unit, a br and a text unit of
\* another style set follow each other: a style stayed open over the br and
\* was closed before the second text
C13_Witness ==
    /\ pc = "rendered"
    /\ \E k \in 1..(Len(units) - 2) :
          /\ units[k].type = "text" /\ units[k].styles # <<>>
          /\ units[k + 1].type = "br"
          /\ units[k + 2].type = "text"
          /\ StyleSet(units[k + 2].styles) # StyleSet(units[k].styles)
          /\ \E s \in StyleSet(units[k].styles) :
                s \notin StyleSet(units[k + 2].styles) /\ MarkerCount(s, blockContent) = 2

====
